---- MODULE Spec2Model ----
(***************************************************************************)
(* State-machine model of the ISL12020/ISL12020M RTC drivers.              *)
(*                                                                         *)
(* Four driver variants live in the repository:                            *)
(*   "basic"    src/rtc-isl12020m.c lines   1-172  (time only)             *)
(*   "tse"      src/unnamed/part_003               (time, TSE bit, hwmon)  *)
(*   "m"        src/rtc-isl12020m.c lines 174-735  (BETA flags, freq out)  *)
(*   "isl12020" src/rtc-isl12020.c                 (all attributes)        *)
(*                                                                         *)
(* The register channel (regmap over I2C) is the environment: every        *)
(* channel operation either succeeds or returns a negative errno.  A       *)
(* failed write is modelled as leaving the register unchanged.             *)
(***************************************************************************)
EXTENDS Integers, Sequences, FiniteSets, TLC

\* ------------------------------------------------------------------ bits

BIT(n) == 2 ^ n

GENMASK(h, l) == (2 ^ (h + 1)) - (2 ^ l)

RECURSIVE BitAnd(_, _)
BitAnd(a, b) ==
    IF a = 0 \/ b = 0 THEN 0
    ELSE ((a % 2) * (b % 2)) + 2 * BitAnd(a \div 2, b \div 2)

BitOr(a, b) == a + b - BitAnd(a, b)

\* a & ~m
BitClear(a, m) == a - BitAnd(a, m)

HasBit(v, m) == BitAnd(v, m) # 0

U8(v) == v % 256

\* ------------------------------------------------------- program constants

MASK3BITS == GENMASK(2, 0)
MASK4BITS == GENMASK(3, 0)
MASK5BITS == GENMASK(4, 0)
MASK6BITS == GENMASK(5, 0)
MASK7BITS == GENMASK(6, 0)

CENTURY_LEN == 100
MONTH_OFFSET == 1
WEEK_LEN == 7

MILLI_DEGREE_CELCIUS == 1000
CELCIUS0 == 369 * MILLI_DEGREE_CELCIUS
CELCIUS0_M == 273 * MILLI_DEGREE_CELCIUS

\* rtc-isl12020.c: GENMASK(3, 0); the "m" variant defines GENMASK(4, 0) and
\* never uses it.
FREQ_OUT_MODE_MAX == GENMASK(3, 0)
M_FREQ_OUT_MODE_MAX == GENMASK(4, 0)

ISL_REG_RTC_SC == 0
ISL_REG_RTC_MN == 1
ISL_REG_RTC_HR == 2
ISL_REG_RTC_DT == 3
ISL_REG_RTC_MO == 4
ISL_REG_RTC_YR == 5
ISL_REG_RTC_DW == 6
ISL_REG_CSR_SR == 7
ISL_REG_CSR_INT == 8
ISL_REG_CSR_BETA == 13
ISL_REG_TEMP_TKOL == 40

ISL_BIT_RTC_HR_MIL == BIT(7)
ISL_BIT_CSR_SR_OSCF == BIT(7)
ISL_BIT_CSR_SR_RTCF == BIT(0)
ISL_BIT_CSR_INT_WRTC == BIT(6)
ISL_BIT_CSR_INT_FOBATB == BIT(4)
ISL_BIT_CSR_BETA_TSE == BIT(7)
ISL_BIT_CSR_BETA_BTSE == BIT(6)
ISL_BIT_CSR_BETA_BTSR == BIT(5)

\* errno values the driver itself returns
EOPNOTSUPP == -95
ERANGE == -34
EINVAL == -22

\* errno values a failing regmap/I2C transfer may return (-EIO, -EREMOTEIO)
ChannelErrs == {-5, -121}

Variants == {"basic", "tse", "m", "isl12020"}

\* ------------------------------------------------------------------- BCD

\* linux/bcd.h _bin2bcd: ((val / 10) << 4) + val % 10, returned as unsigned char
bin2bcd(val) == U8(((val \div 10) * 16) + (val % 10))

\* linux/bcd.h _bcd2bin: (val & 0x0f) + (val >> 4) * 10
bcd2bin(val) == (val % 16) + ((val \div 16) * 10)


\* ------------------------------------------------------------------ state

VARIABLES
    variant,    \* which driver is bound to the chip
    props,      \* firmware (device tree) properties of the device, static
    regmap,     \* chip registers: address -> byte
    config,     \* priv->config (tse, btse, btsr, freq_out_mode, freq_out_bat)
    status,     \* priv->status (oscf, rtcf)
    dev,        \* driver-core state: binding, sysfs files, hwmon, rtc device
    last,       \* the most recent handler call: inputs, result, channel ops
    env,        \* the errors the channel and the driver core can return, static
    set_tm,     \* the calendar time the time registers were last written from
    threads     \* concurrent callers: each one's handler, position and locals

vars == <<variant, props, regmap, config, status, dev, last, env, set_tm, threads>>

\* what the channel answers to one operation: success or one of its errors
ChanAnswers == {0} \cup env.chanErrs

\* what a driver-core call (sysfs, hwmon, rtc registration) answers
FwAnswers == {0} \cup env.fwErrs

\* ------------------------------------------------------------ time codec

\* Mask applied to the weekday byte: the basic variant uses WEEK_LEN (7),
\* the others MASK3BITS.
WdayMask(v) == IF v = "basic" THEN WEEK_LEN ELSE MASK3BITS

SecByte(tm) == bin2bcd(tm.tm_sec)
MinByte(tm) == bin2bcd(tm.tm_min)
HourByte_NoMil(tm) == bin2bcd(tm.tm_hour)
HourByte(tm) == BitOr(bin2bcd(tm.tm_hour), ISL_BIT_RTC_HR_MIL)
DayByte(tm) == bin2bcd(tm.tm_mday)
MonthByte_NoOffset(tm) == bin2bcd(tm.tm_mon)
MonthByte(tm) == bin2bcd(tm.tm_mon + MONTH_OFFSET)
YearByte(tm) == bin2bcd(tm.tm_year % CENTURY_LEN)
WdayByte(v, tm) == BitAnd(tm.tm_wday, WdayMask(v))

\* regmap_buf[] as filled by set_time, indexed by register offset 0..6
EncodeTime(v, tm) ==
    [r \in ISL_REG_RTC_SC .. ISL_REG_RTC_DW |->
        CASE r = ISL_REG_RTC_SC -> SecByte(tm)
          [] r = ISL_REG_RTC_MN -> MinByte(tm)
          [] r = ISL_REG_RTC_HR -> HourByte(tm)
          [] r = ISL_REG_RTC_DT -> DayByte(tm)
          [] r = ISL_REG_RTC_MO -> MonthByte(tm)
          [] r = ISL_REG_RTC_YR -> YearByte(tm)
          [] OTHER -> WdayByte(v, tm)]

DecodeHour_NoMask(b) == bcd2bin(b)
DecodeHour(b) == bcd2bin(BitAnd(b, MASK6BITS))

\* struct rtc_time as filled by read_time from the bytes read
DecodeTime(v, buf) ==
    [tm_sec  |-> bcd2bin(BitAnd(buf[ISL_REG_RTC_SC], MASK7BITS)),
     tm_min  |-> bcd2bin(BitAnd(buf[ISL_REG_RTC_MN], MASK7BITS)),
     tm_hour |-> DecodeHour(buf[ISL_REG_RTC_HR]),
     tm_mday |-> bcd2bin(BitAnd(buf[ISL_REG_RTC_DT], MASK6BITS)),
     tm_mon  |-> bcd2bin(BitAnd(buf[ISL_REG_RTC_MO], MASK5BITS)) - MONTH_OFFSET,
     tm_year |-> bcd2bin(buf[ISL_REG_RTC_YR]) + CENTURY_LEN,
     tm_wday |-> BitAnd(buf[ISL_REG_RTC_DW], WdayMask(v))]

NoTime ==
    [tm_sec |-> 0, tm_min |-> 0, tm_hour |-> 0, tm_mday |-> 0, tm_mon |-> 0,
     tm_year |-> 0, tm_wday |-> 0]

\* ------------------------------------------------------ config controller

\* The driver takes no lock of its own; sysfs and the rtc core do not
\* serialise a store of one attribute against a store of another or against
\* set_time.  Two callers can therefore be inside handlers at once.
Threads == {"A", "B"}

\* kzalloc'ed struct isl12020_config (the "m" variant keeps the same fields
\* directly in its private data; the "tse" variant only has tse)
ZeroConfig ==
    [freq_out_mode |-> 0, freq_out_bat |-> FALSE,
     tse |-> FALSE, btse |-> FALSE, btsr |-> FALSE]

NoArgs ==
    [tse |-> FALSE, btse |-> FALSE, btsr |-> FALSE, mode |-> 0, bat |-> FALSE]

\* new BETA byte computed by set_beta from the byte read
BetaValue_OrOnly(val, tse, btse, btsr) ==
    LET v1 == IF tse THEN BitOr(val, ISL_BIT_CSR_BETA_TSE) ELSE val
        v2 == IF btse THEN BitOr(v1, ISL_BIT_CSR_BETA_BTSE) ELSE v1
    IN  IF btsr THEN BitOr(v2, ISL_BIT_CSR_BETA_BTSR) ELSE v2

BetaValue(val, tse, btse, btsr) ==
    LET v1 == IF tse THEN BitOr(val, ISL_BIT_CSR_BETA_TSE)
                     ELSE BitClear(val, ISL_BIT_CSR_BETA_TSE)
        v2 == IF btse THEN BitOr(v1, ISL_BIT_CSR_BETA_BTSE)
                      ELSE BitClear(v1, ISL_BIT_CSR_BETA_BTSE)
    IN  IF btsr THEN BitOr(v2, ISL_BIT_CSR_BETA_BTSR)
                ELSE BitClear(v2, ISL_BIT_CSR_BETA_BTSR)

\* new BETA byte computed by isl12020m_tse ("tse" variant)
TseValue(val, enable) ==
    IF enable THEN BitOr(val, ISL_BIT_CSR_BETA_TSE)
              ELSE BitClear(val, ISL_BIT_CSR_BETA_TSE)

\* new INT byte computed by isl12020_set_freq_out: FOBATB is a reversed bit
FreqOutValue_NoClear(val, mode, batmode) ==
    BitOr(IF batmode THEN BitClear(val, ISL_BIT_CSR_INT_FOBATB)
          ELSE BitOr(val, ISL_BIT_CSR_INT_FOBATB),
          BitAnd(mode, MASK4BITS))

FreqOutValue(val, mode, batmode) ==
    LET v1 == IF batmode THEN BitClear(val, ISL_BIT_CSR_INT_FOBATB)
                         ELSE BitOr(val, ISL_BIT_CSR_INT_FOBATB)
        v2 == BitClear(v1, MASK4BITS)
    IN  BitOr(v2, BitAnd(mode, MASK4BITS))

\* new INT byte computed by isl12020m_set_freq_out ("m" variant): the bit
\* is set when enable is true
FreqOutValueM(val, mode, enable) ==
    LET v1 == IF enable THEN BitOr(val, ISL_BIT_CSR_INT_FOBATB)
                        ELSE BitClear(val, ISL_BIT_CSR_INT_FOBATB)
        v2 == BitClear(v1, MASK4BITS)
    IN  BitOr(v2, BitAnd(mode, MASK4BITS))

\* "if (err == 0)" after the register read: the write is attempted
WriteAttempted_Always(err) == TRUE
WriteAttempted(err) == err = 0

\* "if (!err)" after the register write: the stored configuration is updated
ConfigStored_Always(err) == TRUE
ConfigStored_Never(err) == FALSE
ConfigStored(err) == err = 0

ChanOp(op, reg, val, err) == [op |-> op, reg |-> reg, val |-> val, err |-> err]

\* The read-modify-write skeleton shared by the setters.  st is the state a
\* handler threads through its calls: the registers, the stored
\* configuration, the channel operations issued and the setter calls made.
\* rdErr and wrErr are the channel's answers (0 or a negative errno).
ReadModifyWrite(st, fn, args, reg, newval, newcfg, rdErr, wrErr) ==
    LET val == st.regmap[reg]
        rd == ChanOp("read", reg, val, rdErr)
        wr == ChanOp("write", reg, newval, wrErr)
        doWrite == WriteAttempted(rdErr)
        ops == IF doWrite THEN <<rd, wr>> ELSE <<rd>>
        ret == IF doWrite THEN wrErr ELSE rdErr
        regmap2 == IF doWrite /\ wrErr = 0
                   THEN [st.regmap EXCEPT ![reg] = newval] ELSE st.regmap
        cfg2 == IF doWrite /\ ConfigStored(wrErr) THEN newcfg ELSE st.config
    IN  [regmap |-> regmap2,
         config |-> cfg2,
         ops |-> st.ops \o ops,
         calls |-> Append(st.calls,
                     [fn |-> fn, args |-> args, ret |-> ret, ops |-> ops,
                      rdErr |-> rdErr,
                      preReg |-> val, preCfg |-> st.config,
                      postReg |-> regmap2[reg], postCfg |-> cfg2])]

\* the answers the channel can give to a read followed by a write
RmwOutcomes ==
    {<<0, 0>>} \cup {<<e, 0>> : e \in env.chanErrs} \cup {<<0, e>> : e \in env.chanErrs}

\* isl12020_set_beta / isl12020m_beta (same body in both files)
isl12020_set_beta(st, tse, btse, btsr) ==
    { ReadModifyWrite(st, "set_beta",
          [NoArgs EXCEPT !.tse = tse, !.btse = btse, !.btsr = btsr],
          ISL_REG_CSR_BETA,
          BetaValue(st.regmap[ISL_REG_CSR_BETA], tse, btse, btsr),
          [st.config EXCEPT !.tse = tse, !.btse = btse, !.btsr = btsr],
          o[1], o[2]) : o \in RmwOutcomes }

\* isl12020m_tse ("tse" variant)
isl12020m_tse(st, enable) ==
    { ReadModifyWrite(st, "tse",
          [NoArgs EXCEPT !.tse = enable],
          ISL_REG_CSR_BETA,
          TseValue(st.regmap[ISL_REG_CSR_BETA], enable),
          [st.config EXCEPT !.tse = enable],
          o[1], o[2]) : o \in RmwOutcomes }

\* isl12020_set_freq_out (u8 mode, bool batmode)
isl12020_set_freq_out(st, mode, batmode) ==
    { ReadModifyWrite(st, "set_freq_out",
          [NoArgs EXCEPT !.mode = mode, !.bat = batmode],
          ISL_REG_CSR_INT,
          FreqOutValue(st.regmap[ISL_REG_CSR_INT], mode, batmode),
          [st.config EXCEPT !.freq_out_mode = mode, !.freq_out_bat = batmode],
          o[1], o[2]) : o \in RmwOutcomes }

\* isl12020m_set_freq_out (u8 mode, bool enable)
isl12020m_set_freq_out(st, mode, enable) ==
    { ReadModifyWrite(st, "set_freq_out",
          [NoArgs EXCEPT !.mode = mode, !.bat = enable],
          ISL_REG_CSR_INT,
          FreqOutValueM(st.regmap[ISL_REG_CSR_INT], mode, enable),
          [st.config EXCEPT !.freq_out_mode = mode, !.freq_out_bat = enable],
          o[1], o[2]) : o \in RmwOutcomes }

set_freq_out(v, st, mode, bat) ==
    IF v = "m" THEN isl12020m_set_freq_out(st, mode, bat)
    ELSE isl12020_set_freq_out(st, mode, bat)


RegAddrs ==
    (ISL_REG_RTC_SC .. ISL_REG_CSR_INT) \cup {ISL_REG_CSR_BETA}

\* chip defaults of the time registers (register comments in the source)
DefaultRegs ==
    [r \in RegAddrs |->
        IF r = ISL_REG_RTC_DT \/ r = ISL_REG_RTC_MO THEN 1 ELSE 0]

NoProps ==
    [tse |-> FALSE, btse |-> FALSE, btsr |-> FALSE, bat |-> FALSE,
     has_mode |-> FALSE, mode |-> 0]

NoStatus == [oscf |-> FALSE, rtcf |-> FALSE]

NoDev == [life |-> "unbound", sysfs |-> FALSE, hwmon |-> "none", rtc |-> FALSE]

NoCall ==
    [op |-> "none", ret |-> 0, ops |-> <<>>, calls |-> <<>>,
     fw |-> <<>>, preCfg |-> ZeroConfig, buf |-> <<>>, tm |-> NoTime, val |-> 0]

\* a caller outside every handler.  pc is its position: "idle", "read"
\* (before regmap_read), "write" (before regmap_write), "store" (before the
\* assignments to priv->config), "update" (before regmap_update_bits),
\* "block" (before regmap_bulk_write), "done".  args are the arguments of
\* the setter it called; args.beta tells set_beta from set_freq_out.
NoThread ==
    [pc |-> "idle", op |-> "none", flag |-> FALSE, mode |-> 0, alone |-> TRUE,
     args |-> [beta |-> FALSE, tse |-> FALSE, btse |-> FALSE, btsr |-> FALSE,
               mode |-> 0, bat |-> FALSE],
     val |-> 0, ret |-> 0]

\* no handler call is in flight: the previous one has returned to its caller
Idle == last.op = "none"

HasStatusRead(v) == v # "basic"
HasBetaFlags(v) == v \in {"m", "isl12020"}
HasFreqOut(v) == v \in {"m", "isl12020"}
HasFreqOutAttrs(v) == v = "isl12020"
HasHwmon(v) == v # "basic"

\* errors of the driver core: allocation, sysfs, rtc registration (-ENOMEM)
FrameworkErrs == {-12}

NoFaults == [chanErrs |-> {}, fwErrs |-> {}, hwmonFails |-> FALSE]
ChanFaults == [chanErrs |-> ChannelErrs, fwErrs |-> {}, hwmonFails |-> FALSE]
AllFaults == [chanErrs |-> ChannelErrs, fwErrs |-> FrameworkErrs, hwmonFails |-> TRUE]

\* i2c_check_functionality failing: -ENODEV
ENODEV == -19

\* ------------------------------------------------------------------ probe

\* "if (err) goto state_fail" after the read of the status register
StatusReadFatal_Never(err) == FALSE
StatusReadFatal(err) == err # 0

\* freq_out_mode handed to set_freq_out at bind: the local's default unless
\* the property is present; the u32 of rtc-isl12020.c is truncated to the
\* u8 parameter
ProbeFreqOutMode(v) ==
    IF v = "m"
    THEN (IF props.has_mode THEN U8(props.mode) ELSE 1)
    ELSE (IF props.has_mode THEN U8(props.mode) ELSE 0)

\* the startup configuration applied by probe: the states it can end in
ProbeConfig_FalseSiblings(v, st) ==
    LET S1 == IF props.tse THEN isl12020_set_beta(st, TRUE, FALSE, FALSE)
              ELSE {st}
        S2 == UNION { IF props.btse
                      THEN isl12020_set_beta(s, FALSE, TRUE, FALSE)
                      ELSE {s} : s \in S1 }
        S3 == UNION { IF props.btsr
                      THEN isl12020_set_beta(s, FALSE, FALSE, TRUE)
                      ELSE {s} : s \in S2 }
    IN  UNION { set_freq_out(v, s, ProbeFreqOutMode(v), props.bat) : s \in S3 }

ProbeConfig(v, st) ==
    IF v = "tse"
    THEN (IF props.tse THEN isl12020m_tse(st, TRUE) ELSE {st})
    ELSE
      LET S1 == IF props.tse
                THEN isl12020_set_beta(st, TRUE, st.config.btse, st.config.btsr)
                ELSE {st}
          S2 == UNION { IF props.btse
                        THEN isl12020_set_beta(s, s.config.tse, TRUE, s.config.btsr)
                        ELSE {s} : s \in S1 }
          S3 == UNION { IF props.btsr
                        THEN isl12020_set_beta(s, s.config.tse, s.config.btse, TRUE)
                        ELSE {s} : s \in S2 }
      IN  UNION { set_freq_out(v, s, ProbeFreqOutMode(v), props.bat) : s \in S3 }

\* the flags probe derives from the status byte; the "tse" variant only
\* logs a warning and stores nothing
ProbeStatus_AnyBit(v, sr) == [oscf |-> sr # 0, rtcf |-> sr # 0]

ProbeStatus(v, sr) ==
    IF v = "tse" THEN NoStatus
    ELSE [oscf |-> HasBit(sr, ISL_BIT_CSR_SR_OSCF),
          rtcf |-> HasBit(sr, ISL_BIT_CSR_SR_RTCF)]

\* driver-core calls creating and removing the attribute files; the "tse"
\* variant puts them under a kobject of its own
FwCreateFiles(v) ==
    IF v = "tse" THEN <<"kobject_create_and_add", "sysfs_create_files">>
    ELSE <<"sysfs_create_files">>

FwRemoveFiles(v) ==
    IF v = "tse" THEN <<"sysfs_remove_files", "kobject_put">>
    ELSE <<"sysfs_remove_files">>

\* "if (err) { dev_warn(...); }" after the set_freq_out call of probe: the
\* error is logged and probe goes on
StartupFailureFatal_Always(err) == err # 0
StartupFailureFatal(err) == FALSE

\* probe returning before the status read: no attribute file exists
ProbeEarlyFail(err, fw) ==
    /\ dev' = [dev EXCEPT !.life = "failed"]
    /\ last' = [NoCall EXCEPT !.op = "probe", !.ret = err, !.fw = fw]
    /\ UNCHANGED <<regmap, config, status>>

\* the tail of probe: hwmon registration, startup configuration and
\* devm_rtc_register_device
ProbeFinish(v, st0, sr, fw0) ==
    \E hw \in (IF ~HasHwmon(v) THEN {"none"}
               ELSE IF env.hwmonFails THEN {"registered", "error"}
               ELSE {"registered"}),
       st \in (IF v = "basic" THEN {st0} ELSE ProbeConfig(v, st0)) :
      \E rr \in (IF HasFreqOut(v) /\ StartupFailureFatal(st.calls[Len(st.calls)].ret)
               THEN {st.calls[Len(st.calls)].ret}
               ELSE FwAnswers) :
        /\ regmap' = st.regmap
        /\ config' = st.config
        /\ status' = (IF v = "basic" THEN NoStatus ELSE ProbeStatus(v, sr))
        /\ dev' = [life |-> IF rr = 0 THEN "bound" ELSE "failed",
                   sysfs |-> HasStatusRead(v), hwmon |-> hw, rtc |-> rr = 0]
        /\ last' = [NoCall EXCEPT !.op = "probe", !.ret = rr,
                !.ops = st.ops, !.calls = st.calls,
                !.fw = fw0 \o (IF HasHwmon(v)
                               THEN <<"hwmon_device_register_with_info">>
                               ELSE <<>>)
                           \o <<"devm_rtc_register_device">>]

Probe ==
    /\ Idle
    /\ dev.life = "unbound"
    /\ UNCHANGED <<variant, props, env, threads, set_tm>>
    /\ LET v == variant
           st0 == [regmap |-> regmap, config |-> ZeroConfig,
                   ops |-> <<>>, calls |-> <<>>]
       IN \E early \in FwAnswers \cup (IF env.fwErrs = {} THEN {} ELSE {ENODEV}) :
            IF early # 0 THEN ProbeEarlyFail(early, <<>>)
            ELSE IF ~HasStatusRead(v) THEN ProbeFinish(v, st0, 0, <<>>)
            ELSE \E sysfsErr \in FwAnswers :
                   IF sysfsErr # 0 THEN ProbeEarlyFail(sysfsErr, FwCreateFiles(v))
                   ELSE \E rdErr \in ChanAnswers :
                     LET sr == regmap[ISL_REG_CSR_SR]
                         st1 == [st0 EXCEPT !.ops =
                                   <<ChanOp("read", ISL_REG_CSR_SR, sr, rdErr)>>]
                     IN IF StatusReadFatal(rdErr)
                        THEN \* state_fail: sysfs_remove_files, return err
                             /\ dev' = [dev EXCEPT !.life = "failed",
                                                   !.sysfs = FALSE]
                             /\ last' = [NoCall EXCEPT !.op = "probe",
                                  !.ret = rdErr, !.ops = st1.ops,
                                  !.fw = FwCreateFiles(v) \o FwRemoveFiles(v)]
                             /\ UNCHANGED <<regmap, config, status>>
                        ELSE ProbeFinish(v, st1, sr, FwCreateFiles(v))


\* ------------------------------------------------------- text conversions

\* An attribute write hands the handler a buffer of characters and its
\* length (count).
Digits == {"0", "1", "2", "3", "4", "5", "6", "7", "8", "9"}

DigitVal(c) ==
    CASE c = "0" -> 0 [] c = "1" -> 1 [] c = "2" -> 2 [] c = "3" -> 3
      [] c = "4" -> 4 [] c = "5" -> 5 [] c = "6" -> 6 [] c = "7" -> 7
      [] c = "8" -> 8 [] OTHER -> 9

RECURSIVE DecValue(_)
DecValue(buf) ==
    IF buf = <<>> THEN 0
    ELSE 10 * DecValue(SubSeq(buf, 1, Len(buf) - 1)) + DigitVal(buf[Len(buf)])

AllDigits(buf) == buf # <<>> /\ \A i \in DOMAIN buf : buf[i] \in Digits

\* kstrtobool: decided by the first character ("on"/"off" by the second)
kstrtobool(buf) ==
    IF buf = <<>> THEN [err |-> EINVAL, val |-> FALSE]
    ELSE IF buf[1] \in {"y", "Y", "t", "T", "1"} THEN [err |-> 0, val |-> TRUE]
    ELSE IF buf[1] \in {"n", "N", "f", "F", "0"} THEN [err |-> 0, val |-> FALSE]
    ELSE IF buf[1] \in {"o", "O"} /\ Len(buf) >= 2 /\ buf[2] \in {"n", "N"}
         THEN [err |-> 0, val |-> TRUE]
    ELSE IF buf[1] \in {"o", "O"} /\ Len(buf) >= 2 /\ buf[2] \in {"f", "F"}
         THEN [err |-> 0, val |-> FALSE]
    ELSE [err |-> EINVAL, val |-> FALSE]

\* kstrtou8(buf, 10, &val): all decimal digits, value at most 255
kstrtou8(buf) ==
    IF ~AllDigits(buf) THEN [err |-> EINVAL, val |-> 0]
    ELSE IF DecValue(buf) > 255 THEN [err |-> ERANGE, val |-> 0]
    ELSE [err |-> 0, val |-> DecValue(buf)]

RECURSIVE DigitPrefix(_)
DigitPrefix(buf) ==
    IF buf = <<>> \/ buf[1] \notin Digits THEN <<>>
    ELSE <<buf[1]>> \o DigitPrefix(Tail(buf))

\* sscanf(buf, "%hhu", &val): the leading digits, stored modulo 256; with no
\* digit nothing is stored and val keeps its uninitialised content, which
\* is any byte (0 and 255 stand for the zero and the non-zero bytes)
sscanf_hhu(buf) ==
    IF DigitPrefix(buf) = <<>> THEN {0, 255}
    ELSE {U8(DecValue(DigitPrefix(buf)))}

\* ------------------------------------------------------ attribute writes

Thread == [regmap |-> regmap, config |-> config, ops |-> <<>>, calls |-> <<>>]

\* the handler ends: r.st is the state it leaves, r.ret what it returns
Commit(op, buf, r) ==
    /\ regmap' = r.st.regmap
    /\ config' = r.st.config
    /\ last' = [NoCall EXCEPT !.op = op, !.ret = r.ret, !.ops = r.st.ops,
                              !.calls = r.st.calls, !.preCfg = config,
                              !.buf = buf]
    /\ UNCHANGED <<variant, props, status, dev, env, threads, set_tm>>

SetterRet(st) == st.calls[Len(st.calls)].ret

\* set_beta with one flag replaced by val and the stored values of the others
BetaWith(st, attr, val) ==
    isl12020_set_beta(st,
        IF attr = "tse" THEN val ELSE st.config.tse,
        IF attr = "btse" THEN val ELSE st.config.btse,
        IF attr = "btsr" THEN val ELSE st.config.btsr)

\* isl12020_tse_store / _btse_store / _btsr_store: "return err ? err : count"
isl12020_flag_store(attr, buf) ==
    LET p == kstrtobool(buf)
    IN  IF p.err # 0 THEN {[st |-> Thread, ret |-> p.err]}
        ELSE {[st |-> s,
               ret |-> IF SetterRet(s) # 0 THEN SetterRet(s) ELSE Len(buf)] :
                 s \in BetaWith(Thread, attr, p.val)}

\* isl12020m_tse_store / _btse_store / _btsr_store ("m" variant): the
\* setter's result is dropped, "return count"
isl12020m_flag_store(attr, buf) ==
    {[st |-> s, ret |-> Len(buf)] :
        s \in UNION {BetaWith(Thread, attr, val # 0) : val \in sscanf_hhu(buf)}}

\* isl12020m_tse_store of the "tse" variant
tse_variant_store(buf) ==
    {[st |-> s, ret |-> Len(buf)] :
        s \in UNION {isl12020m_tse(Thread, val # 0) : val \in sscanf_hhu(buf)}}

\* isl12020_bat_freq_out_store: "return err ? err : val"
isl12020_bat_freq_out_store(buf) ==
    LET p == kstrtobool(buf)
    IN  IF p.err # 0 THEN {[st |-> Thread, ret |-> p.err]}
        ELSE {[st |-> s,
               ret |-> IF SetterRet(s) # 0 THEN SetterRet(s)
                       ELSE (IF p.val THEN 1 ELSE 0)] :
                 s \in isl12020_set_freq_out(Thread, config.freq_out_mode, p.val)}

\* isl12020_freq_out_store
isl12020_freq_out_store(buf) ==
    LET p == kstrtou8(buf)
    IN  IF p.err # 0 THEN {[st |-> Thread, ret |-> p.err]}
        ELSE IF p.val <= FREQ_OUT_MODE_MAX
        THEN {[st |-> s,
               ret |-> IF SetterRet(s) # 0 THEN SetterRet(s) ELSE Len(buf)] :
                 s \in isl12020_set_freq_out(Thread, p.val, config.freq_out_bat)}
        ELSE {[st |-> Thread, ret |-> ERANGE]}

\* texts written to the boolean attributes and to frequency_output
BoolBufs == {<<"1">>, <<"0">>, <<"o", "n">>, <<"x">>}

ModeBufs == {<<"0">>, <<"5">>, <<"1", "5">>, <<"1", "6">>, <<"2", "5", "6">>, <<"x">>}

AttrsLive == Idle /\ dev.life = "bound" /\ dev.sysfs

FlagStore(attr) ==
    /\ AttrsLive
    /\ variant \in {"m", "isl12020"}
    /\ \E buf \in BoolBufs :
         \E r \in (IF variant = "m" THEN isl12020m_flag_store(attr, buf)
                   ELSE isl12020_flag_store(attr, buf)) :
            Commit(attr \o "_store", buf, r)

TseStore ==
    \/ FlagStore("tse")
    \/ /\ AttrsLive
       /\ variant = "tse"
       /\ \E buf \in BoolBufs : \E r \in tse_variant_store(buf) :
            Commit("tse_store", buf, r)

BtseStore == FlagStore("btse")

BtsrStore == FlagStore("btsr")

BatFreqOutStore ==
    /\ AttrsLive
    /\ HasFreqOutAttrs(variant)
    /\ \E buf \in BoolBufs : \E r \in isl12020_bat_freq_out_store(buf) :
         Commit("bat_freq_out_store", buf, r)

FreqOutStore ==
    /\ AttrsLive
    /\ HasFreqOutAttrs(variant)
    /\ \E buf \in ModeBufs : \E r \in isl12020_freq_out_store(buf) :
         Commit("freq_out_store", buf, r)


\* -------------------------------------------------------- attribute reads

\* the attribute files of each variant, by the field they show
ShowAttrs(v) ==
    CASE v = "basic" -> {}
      [] v = "tse" -> {"tse"}
      [] v = "m" -> {"oscf", "rtcf", "tse", "btse", "btsr"}
      [] OTHER -> {"oscf", "rtcf", "tse", "btse", "btsr", "bat_freq_out",
                   "freq_out"}

\* sysfs_emit(buf, "%c\n", flag ? '1' : '0')
BoolText(flag) == <<IF flag THEN "1" ELSE "0", "\n">>

freq_out_modes ==
    << <<"o", "f", "f">>, <<"3", "2", "7", "6", "8">>, <<"4", "0", "9", "6">>,
       <<"1", "0", "2", "4">>, <<"6", "4">>, <<"3", "2">>, <<"1", "6">>,
       <<"8">>, <<"4">>, <<"2">>, <<"1">>, <<"1", "/", "2">>,
       <<"1", "/", "4">>, <<"1", "/", "8">>, <<"1", "/", "1", "6">>,
       <<"1", "/", "3", "2">> >>

DigitChar(d) == CHOOSE c \in Digits : DigitVal(c) = d

RECURSIVE DecText(_)
\* "%d" of a non-negative number
DecText(n) ==
    IF n < 10 THEN <<DigitChar(n)>>
    ELSE Append(DecText(n \div 10), DigitChar(n % 10))

\* what freq_out_modes[mode] can yield: the table entry, or, for an index
\* past the table, whatever lies behind it
ModeNames(mode) ==
    IF mode < Len(freq_out_modes) THEN {freq_out_modes[mode + 1]}
    ELSE {<<>>, <<"?">>}

\* sysfs_emit(buf, "%d (%s%s)\n", mode, freq_out_modes[mode], mode ? " Hz" : "")
FreqOutText(mode) ==
    { DecText(mode) \o <<" ", "(">> \o name
        \o (IF mode # 0 THEN <<" ", "H", "z">> ELSE <<>>) \o <<")", "\n">> :
      name \in ModeNames(mode) }

\* the texts a show handler can emit
ShowText(attr) ==
    CASE attr = "oscf" -> {BoolText(status.oscf)}
      [] attr = "rtcf" -> {BoolText(status.rtcf)}
      [] attr = "tse" -> {BoolText(config.tse)}
      [] attr = "btse" -> {BoolText(config.btse)}
      [] attr = "btsr" -> {BoolText(config.btsr)}
      [] attr = "bat_freq_out" -> {BoolText(config.freq_out_bat)}
      [] OTHER -> FreqOutText(config.freq_out_mode)

\* a .show handler: emits the stored field, returns the length of the text
Show ==
    /\ AttrsLive
    /\ UNCHANGED <<variant, props, regmap, config, status, dev, env, threads, set_tm>>
    /\ \E attr \in ShowAttrs(variant) :
         \E text \in ShowText(attr) :
           last' = [NoCall EXCEPT !.op = attr \o "_show", !.ret = Len(text),
                      !.preCfg = config, !.buf = text]

\* ------------------------------------------------------------ temperature

\* CELCIUS0 of rtc-isl12020m.c and of the "tse" variant
M_CELCIUS0 == 273 * MILLI_DEGREE_CELCIUS

\* the offset read_temp subtracts: rtc-isl12020.c uses CELCIUS0_M, the other
\* two their CELCIUS0
CelsiusZero(v) == IF v = "isl12020" THEN CELCIUS0_M ELSE M_CELCIUS0

\* "if (priv->config.tse)": the sensor registers are read
TempGate_Always(tse) == TRUE
TempGate(tse) == tse

\* le16_to_cpu(buf) * (MILLI_DEGREE_CELCIUS / 2) - offset
TempValue(v, raw) == (raw * (MILLI_DEGREE_CELCIUS \div 2)) - CelsiusZero(v)

\* contents of the register pair TKOL/TKOM as a little-endian 16-bit value;
\* the chip updates it on its own, so each read sees any of these
TempInputs == {0, 1, 746, 1023, 1024 + 746, 65535}

\* isl12020_read_temp / isl12020m_read_temp, called through hwmon
ReadTemp ==
    /\ Idle
    /\ dev.life = "bound"
    /\ dev.hwmon = "registered"
    /\ UNCHANGED <<variant, props, regmap, config, status, dev, env, threads, set_tm>>
    /\ IF TempGate(config.tse)
       THEN \E raw \in TempInputs, err \in ChanAnswers :
              last' = [NoCall EXCEPT !.op = "read_temp", !.ret = err,
                         !.preCfg = config,
                         !.ops = <<ChanOp("bulk_read", ISL_REG_TEMP_TKOL, raw, err)>>,
                         !.val = IF err = 0 THEN TempValue(variant, raw) ELSE 0]
       ELSE last' = [NoCall EXCEPT !.op = "read_temp", !.ret = EOPNOTSUPP,
                                   !.preCfg = config]

\* ------------------------------------------------------------------- time

TimeRegs == ISL_REG_RTC_SC .. ISL_REG_RTC_DW

\* regmap_update_bits(map, reg, mask, val): the bits of mask take their value
\* from val, the other bits keep theirs; one operation under the map's lock
UpdateBitsValue_WriteMask(old, mask, val) == BitAnd(val, mask)
UpdateBitsValue(old, mask, val) == BitOr(BitClear(old, mask), BitAnd(val, mask))

\* "if (err < 0) return err" after regmap_update_bits
SetTimeAborts_Never(err) == FALSE
SetTimeAborts(err) == err < 0

\* rtc_ops.set_time: set WRTC with regmap_update_bits, then write the block.
\* A bulk operation is logged with the first register and, as value, 0.
SetTime(times) ==
    /\ Idle
    /\ dev.life = "bound"
    /\ UNCHANGED <<variant, props, config, status, dev, env, threads>>
    /\ \E tm \in times, upErr \in ChanAnswers :
         LET up == ChanOp("update_bits", ISL_REG_CSR_INT, ISL_BIT_CSR_INT_WRTC, upErr)
         IN IF SetTimeAborts(upErr)
            THEN /\ regmap' = regmap
                 /\ set_tm' = set_tm
                 /\ last' = [NoCall EXCEPT !.op = "set_time", !.ret = upErr,
                               !.preCfg = config, !.tm = tm, !.ops = <<up>>]
            ELSE \E wrErr \in ChanAnswers :
                   LET buf == EncodeTime(variant, tm)
                       r1 == IF upErr = 0
                             THEN [regmap EXCEPT ![ISL_REG_CSR_INT] =
                                     UpdateBitsValue(@, ISL_BIT_CSR_INT_WRTC,
                                                     ISL_BIT_CSR_INT_WRTC)]
                             ELSE regmap
                   IN /\ regmap' = IF wrErr = 0
                                   THEN [r \in RegAddrs |->
                                           IF r \in TimeRegs THEN buf[r] ELSE r1[r]]
                                   ELSE r1
                      /\ set_tm' = IF wrErr = 0 THEN [valid |-> TRUE, tm |-> tm]
                                   ELSE set_tm
                      /\ last' = [NoCall EXCEPT !.op = "set_time", !.ret = wrErr,
                                    !.preCfg = config, !.tm = tm,
                                    !.ops = <<up, ChanOp("bulk_write",
                                                ISL_REG_RTC_SC, 0, wrErr)>>]

\* the registers read_time fetches: u8 regmap_buf[ISL_REG_CSR_INT + 1]
ReadTimeRegs == ISL_REG_RTC_SC .. ISL_REG_CSR_INT

\* rtc_ops.read_time: one bulk read of registers 0x00-0x08, then the decode
\* of the first seven
ReadTime ==
    /\ Idle
    /\ dev.life = "bound"
    /\ UNCHANGED <<variant, props, regmap, config, status, dev, env, threads, set_tm>>
    /\ \E err \in ChanAnswers :
         last' = [NoCall EXCEPT !.op = "read_time", !.ret = err,
                    !.preCfg = config,
                    !.ops = <<ChanOp("bulk_read", ISL_REG_RTC_SC, 0, err)>>,
                    !.tm = IF err = 0 THEN DecodeTime(variant, regmap) ELSE NoTime]

\* ----------------------------------------------------------------- remove

\* i2c remove: the basic variant does nothing; the others remove the
\* attribute files and unregister priv->hwmon_dev
Remove ==
    /\ Idle
    /\ dev.life = "bound"
    /\ UNCHANGED <<variant, props, regmap, config, status, env, threads, set_tm>>
    /\ dev' = [dev EXCEPT !.life = "removed",
                          !.sysfs = FALSE,
                          !.rtc = FALSE,
                          !.hwmon = IF @ = "registered" THEN "unregistered" ELSE @]
    /\ last' = [NoCall EXCEPT !.op = "remove", !.preCfg = config,
                  !.fw = IF variant = "basic" THEN <<>>
                         ELSE FwRemoveFiles(variant) \o <<"hwmon_device_unregister">>]

\* the handler's result reaches its caller; the next call can be made
Return ==
    /\ ~Idle
    /\ last' = NoCall
    /\ UNCHANGED <<variant, props, regmap, config, status, dev, env, threads, set_tm>>

\* --------------------------------------------------------- specifications

\* firmware properties; mode -1 stands for an absent frequency-output-mode
Props(tse, btse, btsr, bat, mode) ==
    [tse |-> tse, btse |-> btse, btsr |-> btsr, bat |-> bat,
     has_mode |-> mode >= 0, mode |-> IF mode >= 0 THEN mode ELSE 0]

\* a variant only sees the properties it asks for
PropsSeen(v, p) ==
    CASE v = "basic" -> NoProps
      [] v = "tse" -> [NoProps EXCEPT !.tse = p.tse]
      [] OTHER -> p

\* the chip before bind: the time registers at their defaults, the control
\* and status registers as given
Image(beta, int, sr) ==
    [DefaultRegs EXCEPT ![ISL_REG_CSR_BETA] = beta, ![ISL_REG_CSR_INT] = int,
                        ![ISL_REG_CSR_SR] = sr]

InitWith(vs, e, images, ps) ==
    /\ variant \in vs
    /\ env = e
    /\ props \in {PropsSeen(variant, p) : p \in ps}
    /\ regmap \in images
    /\ config = ZeroConfig
    /\ status = NoStatus
    /\ dev = NoDev
    /\ last = NoCall
    /\ set_tm = [valid |-> FALSE, tm |-> NoTime]
    /\ threads = [t \in Threads |-> NoThread]

\* a calendar time with every field inside its range, derived from an index
TimeOf(i) ==
    [tm_sec |-> i % 60, tm_min |-> (i * 7) % 60, tm_hour |-> i % 24,
     tm_mday |-> 1 + (i % 31), tm_mon |-> i % 12, tm_year |-> 100 + (i % 100),
     tm_wday |-> i % 7]

\* The configuration controller: bind, every attribute write, the
\* temperature read and unbind; with a failing channel on one register
\* image, with a failing channel and a failing driver core on it, and
\* without failures on several.
Init ==
    \/ InitWith(Variants, ChanFaults, {Image(74, 165, 129)},
                {NoProps, Props(TRUE, TRUE, TRUE, TRUE, 16)})
    \/ InitWith(Variants, AllFaults, {Image(74, 165, 129)},
                {Props(TRUE, FALSE, FALSE, FALSE, 3)})
    \/ InitWith(Variants, NoFaults,
                {Image(0, 0, 0), Image(31, 90, 1), Image(255, 255, 128)},
                {NoProps, Props(FALSE, TRUE, FALSE, FALSE, 5),
                 Props(TRUE, FALSE, TRUE, TRUE, 259)})

Next ==
    \/ Probe
    \/ TseStore
    \/ BtseStore
    \/ BtsrStore
    \/ BatFreqOutStore
    \/ FreqOutStore
    \/ ReadTemp
    \/ Remove
    \/ Return

Spec == Init /\ [][Next]_vars


\* The time codec: bind, set_time with every value of every field, read_time.
NTimes == 100

MinTime == TimeOf(0)

MaxTime ==
    [tm_sec |-> 59, tm_min |-> 59, tm_hour |-> 23, tm_mday |-> 31,
     tm_mon |-> 11, tm_year |-> 199, tm_wday |-> 6]

TimeInputs == {TimeOf(i) : i \in 0 .. (NTimes - 1)} \cup {MinTime, MaxTime}

InitCodec == InitWith(Variants, NoFaults, {Image(0, 0, 0)}, {NoProps})

NextCodec ==
    \/ Probe
    \/ SetTime(TimeInputs)
    \/ ReadTime
    \/ Remove
    \/ Return

SpecCodec == InitCodec /\ [][NextCodec]_vars

\* The compensation register: every content of BETA at bind, every flag
\* written through the attributes.
Bytes == 0 .. 255

InitBeta ==
    InitWith({"tse", "m", "isl12020"}, NoFaults,
             {Image(b, 0, 0) : b \in Bytes},
             {Props(a, b, c, FALSE, -1) : a, b, c \in BOOLEAN})

NextBeta ==
    \/ Probe
    \/ TseStore
    \/ BtseStore
    \/ BtsrStore
    \/ Return

SpecBeta == InitBeta /\ [][NextBeta]_vars

\* set_time and read_time on a failing channel, with WRTC clear or set at
\* bind.
FewTimes == {MinTime, MaxTime, TimeOf(47)}

InitTime ==
    InitWith(Variants, ChanFaults,
             {Image(0, 165, 0), Image(0, 255, 0), Image(0, 64, 128)}, {NoProps})

NextTime ==
    \/ Probe
    \/ SetTime(FewTimes)
    \/ ReadTime
    \/ Remove
    \/ Return

SpecTime == InitTime /\ [][NextTime]_vars

\* The status register: every byte it can hold at bind, then the attribute
\* reads.
InitStatus ==
    InitWith(Variants, NoFaults, {Image(0, 0, sr) : sr \in Bytes},
             {NoProps, Props(TRUE, FALSE, FALSE, FALSE, 17)})

NextStatus ==
    \/ Probe
    \/ Show
    \/ Return

SpecStatus == InitStatus /\ [][NextStatus]_vars

\* Every operation of the driver on a failing channel: bind, the attribute
\* reads and writes, the temperature read, set_time, read_time and unbind.
InitAll ==
    InitWith(Variants, ChanFaults, {Image(74, 165, 129), Image(0, 16, 0)},
             {NoProps, Props(TRUE, FALSE, TRUE, TRUE, 5),
              Props(FALSE, TRUE, FALSE, FALSE, 16)})

NextAll ==
    \/ Probe
    \/ Show
    \/ TseStore
    \/ BtseStore
    \/ BtsrStore
    \/ BatFreqOutStore
    \/ FreqOutStore
    \/ ReadTemp
    \/ SetTime({MaxTime})
    \/ ReadTime
    \/ Remove
    \/ Return

SpecAll == InitAll /\ [][NextAll]_vars

\* The frequency-output register: every content of INT at bind, the mode and
\* the battery flag written at bind and through the attributes.
InitInt ==
    InitWith({"m", "isl12020"}, NoFaults, {Image(0, i, 0) : i \in Bytes},
             {NoProps, Props(FALSE, FALSE, FALSE, TRUE, 15),
              Props(FALSE, FALSE, FALSE, FALSE, 10)})

NextInt ==
    \/ Probe
    \/ BatFreqOutStore
    \/ FreqOutStore
    \/ Return

SpecInt == InitInt /\ [][NextInt]_vars

\* ------------------------------------------------------- concurrent calls

\* the calls a caller makes here, with the value parsed from its text; each
\* one changes another field of the BETA or INT register
Requests ==
    {[op |-> "tse_store", flag |-> TRUE, mode |-> 0],
     [op |-> "btse_store", flag |-> TRUE, mode |-> 0],
     [op |-> "freq_out_store", flag |-> FALSE, mode |-> 5],
     [op |-> "bat_freq_out_store", flag |-> TRUE, mode |-> 0],
     [op |-> "set_time", flag |-> FALSE, mode |-> 0]}

\* A caller enters a handler: the text is parsed and the arguments of the
\* setter are evaluated, the sibling fields from the stored configuration.
\* Nothing keeps it out while another caller is inside; alone records
\* whether one was.
Enter(t) ==
    /\ AttrsLive
    /\ variant = "isl12020"
    /\ threads[t].pc = "idle"
    /\ \E j \in Requests :
         /\ \A u \in Threads \ {t} : threads[u].op # j.op
         /\ LET args ==
                  CASE j.op = "tse_store" ->
                         [beta |-> TRUE, tse |-> j.flag, btse |-> config.btse,
                          btsr |-> config.btsr, mode |-> 0, bat |-> FALSE]
                    [] j.op = "btse_store" ->
                         [beta |-> TRUE, tse |-> config.tse, btse |-> j.flag,
                          btsr |-> config.btsr, mode |-> 0, bat |-> FALSE]
                    [] j.op = "freq_out_store" ->
                         [beta |-> FALSE, tse |-> FALSE, btse |-> FALSE,
                          btsr |-> FALSE, mode |-> j.mode,
                          bat |-> config.freq_out_bat]
                    [] j.op = "bat_freq_out_store" ->
                         [beta |-> FALSE, tse |-> FALSE, btse |-> FALSE,
                          btsr |-> FALSE, mode |-> config.freq_out_mode,
                          bat |-> j.flag]
                    [] OTHER -> NoThread.args
            IN threads' = [threads EXCEPT ![t] =
                             [NoThread EXCEPT
                                !.pc = IF j.op = "set_time" THEN "update"
                                       ELSE "read",
                                !.op = j.op, !.flag = j.flag, !.mode = j.mode,
                                !.args = args,
                                !.alone = \A u \in Threads \ {t} :
                                            threads[u].pc \in {"idle", "done"}]]
    /\ UNCHANGED <<variant, props, regmap, config, status, dev, last, env, set_tm>>

\* regmap_read in set_beta / set_freq_out
RegRead(t) ==
    /\ threads[t].pc = "read"
    /\ \E rdErr \in ChanAnswers :
         threads' = [threads EXCEPT ![t] =
                       IF WriteAttempted(rdErr)
                       THEN [@ EXCEPT !.pc = "write",
                                      !.val = IF threads[t].args.beta
                                              THEN regmap[ISL_REG_CSR_BETA]
                                              ELSE regmap[ISL_REG_CSR_INT]]
                       ELSE [@ EXCEPT !.pc = "done", !.ret = rdErr]]
    /\ UNCHANGED <<variant, props, regmap, config, status, dev, last, env, set_tm>>

\* regmap_write in set_beta / set_freq_out
RegWrite(t) ==
    /\ threads[t].pc = "write"
    /\ LET th == threads[t]
           a == th.args
       IN \E wrErr \in ChanAnswers :
            /\ regmap' =
                  IF wrErr # 0 THEN regmap
                  ELSE IF a.beta
                  THEN [regmap EXCEPT ![ISL_REG_CSR_BETA] =
                          BetaValue(th.val, a.tse, a.btse, a.btsr)]
                  ELSE [regmap EXCEPT ![ISL_REG_CSR_INT] =
                          FreqOutValue(th.val, a.mode, a.bat)]
            /\ threads' = [threads EXCEPT ![t] =
                             [@ EXCEPT !.pc = IF ConfigStored(wrErr)
                                              THEN "store" ELSE "done",
                                       !.ret = wrErr]]
    /\ UNCHANGED <<variant, props, config, status, dev, last, env, set_tm>>

\* "if (!err) { priv->config... = ...; }" after the write
ConfigStore(t) ==
    /\ threads[t].pc = "store"
    /\ LET a == threads[t].args
       IN config' = IF a.beta
                    THEN [config EXCEPT !.tse = a.tse, !.btse = a.btse,
                                        !.btsr = a.btsr]
                    ELSE [config EXCEPT !.freq_out_mode = a.mode,
                                        !.freq_out_bat = a.bat]
    /\ threads' = [threads EXCEPT ![t] = [@ EXCEPT !.pc = "done"]]
    /\ UNCHANGED <<variant, props, regmap, status, dev, last, env, set_tm>>

\* regmap_update_bits in set_time
TimeUpdate(t) ==
    /\ threads[t].pc = "update"
    /\ \E upErr \in ChanAnswers :
         /\ regmap' = IF upErr = 0
                       THEN [regmap EXCEPT ![ISL_REG_CSR_INT] =
                               UpdateBitsValue(@, ISL_BIT_CSR_INT_WRTC,
                                               ISL_BIT_CSR_INT_WRTC)]
                       ELSE regmap
         /\ threads' = [threads EXCEPT ![t] =
                          IF SetTimeAborts(upErr)
                          THEN [@ EXCEPT !.pc = "done", !.ret = upErr]
                          ELSE [@ EXCEPT !.pc = "block"]]
    /\ UNCHANGED <<variant, props, config, status, dev, last, env, set_tm>>

\* regmap_bulk_write in set_time
TimeBlock(t) ==
    /\ threads[t].pc = "block"
    /\ \E wrErr \in ChanAnswers :
         LET buf == EncodeTime(variant, MaxTime)
         IN /\ regmap' = IF wrErr = 0
                          THEN [r \in RegAddrs |->
                                  IF r \in TimeRegs THEN buf[r] ELSE regmap[r]]
                          ELSE regmap
            /\ set_tm' = IF wrErr = 0 THEN [valid |-> TRUE, tm |-> MaxTime]
                          ELSE set_tm
            /\ threads' = [threads EXCEPT ![t] =
                             [@ EXCEPT !.pc = "done", !.ret = wrErr]]
    /\ UNCHANGED <<variant, props, config, status, dev, last, env>>

\* what a successful call leaves behind: its field in the register and, for
\* a setter, in the stored configuration
Reflected(t) ==
    LET th == threads[t]
        beta == regmap[ISL_REG_CSR_BETA]
        int == regmap[ISL_REG_CSR_INT]
    IN  CASE th.op = "tse_store" ->
               /\ (BitAnd(beta, ISL_BIT_CSR_BETA_TSE) # 0) = th.flag
               /\ config.tse = th.flag
          [] th.op = "btse_store" ->
               /\ (BitAnd(beta, ISL_BIT_CSR_BETA_BTSE) # 0) = th.flag
               /\ config.btse = th.flag
          [] th.op = "freq_out_store" ->
               /\ BitAnd(int, MASK4BITS) = th.mode
               /\ config.freq_out_mode = th.mode
          [] th.op = "bat_freq_out_store" ->
               /\ (BitAnd(int, ISL_BIT_CSR_INT_FOBATB) = 0) = th.flag
               /\ config.freq_out_bat = th.flag
          [] th.op = "set_time" ->
               /\ BitAnd(int, ISL_BIT_CSR_INT_WRTC) # 0
               /\ \A r \in TimeRegs : regmap[r] = EncodeTime(variant, MaxTime)[r]
          [] OTHER -> TRUE

\* Two callers, each making one call, one after the other or at once; the
\* channel can fail.
InitRace == InitWith({"isl12020"}, ChanFaults, {Image(0, 0, 0)}, {NoProps})

NextRace ==
    \/ Probe
    \/ Return
    \/ \E t \in Threads :
         \/ Enter(t)
         \/ RegRead(t)
         \/ RegWrite(t)
         \/ ConfigStore(t)
         \/ TimeUpdate(t)
         \/ TimeBlock(t)

SpecRace == InitRace /\ [][NextRace]_vars

\* ----------------------------------------------------------------- claims

Range(seq) == {seq[i] : i \in DOMAIN seq}

Calls == Range(last.calls)

AllOpsOk == \A i \in DOMAIN last.ops : last.ops[i].err = 0

InTimeDomain(tm) ==
    /\ tm.tm_sec \in 0 .. 59
    /\ tm.tm_min \in 0 .. 59
    /\ tm.tm_hour \in 0 .. 23
    /\ tm.tm_mday \in 1 .. 31
    /\ tm.tm_mon \in 0 .. 11
    /\ tm.tm_year \in 100 .. 199
    /\ tm.tm_wday \in 0 .. 6

\* C1: a calendar time inside the domain, written by set_time without a
\* channel failure and then decoded by read_time from the registers, comes
\* back with the same seven fields, in every variant.
C1_RoundTrip ==
    (last.op = "read_time" /\ last.ret = 0 /\ set_tm.valid
        /\ InTimeDomain(set_tm.tm))
    => last.tm = set_tm.tm

C1_Witness ==
    /\ last.op = "read_time"
    /\ last.ret = 0
    /\ set_tm.valid
    /\ set_tm.tm = MaxTime
    /\ variant = "basic"

\* C2: a set_beta call whose read and write both succeed leaves bit 7 = tse,
\* bit 6 = btse, bit 5 = btsr and bits 0-4 of BETA as they were, for every
\* content of the register and every argument triple.
C2_BetaFrame ==
    \A i \in DOMAIN last.calls :
        LET c == last.calls[i]
            isLast == \A j \in DOMAIN last.calls :
                         j > i => last.calls[j].fn # "set_beta"
        IN  (c.fn = "set_beta" /\ c.ret = 0)
            => /\ HasBit(c.postReg, BIT(7)) = c.args.tse
               /\ HasBit(c.postReg, BIT(6)) = c.args.btse
               /\ HasBit(c.postReg, BIT(5)) = c.args.btsr
               /\ c.postReg % 32 = c.preReg % 32
               /\ isLast => regmap[ISL_REG_CSR_BETA] = c.postReg

C2_Witness ==
    \E c \in Calls :
        /\ c.fn = "set_beta"
        /\ c.ret = 0
        /\ c.preReg = 255
        /\ ~c.args.tse
        /\ c.args.btse
        /\ ~c.args.btsr
        /\ regmap[ISL_REG_CSR_BETA] = 95

\* C3: after a successful setFrequencyOutput(mode, battery = b), bit 4
\* (FOBATB) of INT is NOT b and the stored battery flag is b, in every
\* variant that has the setter.
C3_BatteryBitInverted ==
    \A c \in Calls :
        (c.fn = "set_freq_out" /\ c.ret = 0)
        => /\ HasBit(c.postReg, ISL_BIT_CSR_INT_FOBATB) = ~c.args.bat
           /\ c.postCfg.freq_out_bat = c.args.bat

\* C4: with the stored tse flag false, read_temp returns -EOPNOTSUPP and
\* issues no channel operation, whatever the registers hold.
C4_TempNeedsTse ==
    (last.op = "read_temp" /\ ~last.preCfg.tse)
    => (last.ret = EOPNOTSUPP /\ last.ops = <<>>)

C4_Witness ==
    /\ last.op = "read_temp"
    /\ ~last.preCfg.tse
    /\ last.ret = EOPNOTSUPP
    /\ HasBit(regmap[ISL_REG_CSR_BETA], ISL_BIT_CSR_BETA_TSE)

\* the zero offset each chip variant documents: rtc-isl12020.c names 369000
\* for its own chip (CELCIUS0) and 273000 for the M chip (CELCIUS0_M)
DocumentedCelsiusZero(v) == IF v = "isl12020" THEN CELCIUS0 ELSE CELCIUS0_M

\* C5: with compensation enabled and a successful read, read_temp returns
\* raw * 500 minus the zero offset of the chip variant: 273000 on the M
\* chip, 369000 on the other (raw 746 there gives 4000).
C5_VariantOffset ==
    (last.op = "read_temp" /\ last.ret = 0)
    => last.val = (last.ops[1].val * 500) - DocumentedCelsiusZero(variant)

ModeMax(v) == IF v = "m" THEN M_FREQ_OUT_MODE_MAX ELSE FREQ_OUT_MODE_MAX

\* C6: setFrequencyOutput with a mode above the variant's maximum fails with
\* -ERANGE, issues no channel operation and leaves the stored mode and
\* battery flag alone, on the attribute path and at bind alike.
C6_ModeRangeChecked ==
    /\ \A c \in Calls :
          (c.fn = "set_freq_out" /\ c.args.mode > ModeMax(variant))
          => (c.ret = ERANGE /\ c.ops = <<>> /\ c.postCfg = c.preCfg)
    /\ (last.op = "freq_out_store" /\ kstrtou8(last.buf).err = 0
          /\ kstrtou8(last.buf).val > ModeMax(variant))
       => (last.ret = ERANGE /\ last.ops = <<>> /\ config = last.preCfg)

\* C7: after a bind with no startup property and no failure, the stored
\* flags are false, the stored mode is 0 and the battery flag false, and a
\* temperature read is refused, in every variant with a frequency output.
C7_BindDefaults ==
    (last.op = "probe" /\ last.ret = 0 /\ AllOpsOk /\ props = NoProps
        /\ HasFreqOut(variant))
    => /\ ~config.tse /\ ~config.btse /\ ~config.btsr
       /\ config.freq_out_mode = 0
       /\ ~config.freq_out_bat
       /\ ~TempGate(config.tse)

StatusReadFailed ==
    /\ last.op = "probe"
    /\ last.ops # <<>>
    /\ last.ops[1].reg = ISL_REG_CSR_SR
    /\ last.ops[1].err # 0

\* C8: when the read of the status register fails during bind, bind returns
\* that error: no hwmon device, no setter call, no rtc device, and the
\* attribute files created earlier are removed again.
C8_StatusReadFatal ==
    StatusReadFailed
    => /\ last.ret = last.ops[1].err
       /\ Len(last.ops) = 1
       /\ dev.life = "failed"
       /\ dev.hwmon = "none"
       /\ "hwmon_device_register_with_info" \notin Range(last.fw)
       /\ last.calls = <<>>
       /\ ~dev.rtc
       /\ "devm_rtc_register_device" \notin Range(last.fw)
       /\ "sysfs_create_files" \in Range(last.fw)
       /\ last.fw[Len(last.fw)] \in {"sysfs_remove_files", "kobject_put"}
       /\ "sysfs_remove_files" \in Range(last.fw)
       /\ ~dev.sysfs

C8_Witness ==
    /\ StatusReadFailed
    /\ last.ret = -121
    /\ variant = "tse"

\* C9: a setter whose register read fails returns that error and issues no
\* write.
C9_NoWriteAfterFailedRead ==
    \A c \in Calls :
        c.rdErr # 0
        => /\ c.ret = c.rdErr
           /\ \A j \in DOMAIN c.ops : c.ops[j].op # "write"
           /\ c.postReg = c.preReg

C9_Witness ==
    \E c \in Calls, d \in Calls :
        /\ c.fn = "set_beta" /\ c.rdErr = -5
        /\ d.fn = "set_freq_out" /\ d.rdErr = -121

\* the stored configuration with the fields of the called setter set to
\* the call's arguments
CfgWithArgs(c) ==
    CASE c.fn = "set_beta" ->
           [c.preCfg EXCEPT !.tse = c.args.tse, !.btse = c.args.btse,
                            !.btsr = c.args.btsr]
      [] c.fn = "tse" -> [c.preCfg EXCEPT !.tse = c.args.tse]
      [] OTHER ->
           [c.preCfg EXCEPT !.freq_out_mode = c.args.mode,
                            !.freq_out_bat = c.args.bat]

\* C10: a setter that returns an error leaves every stored configuration
\* field as it was; the stored fields change only in a call that succeeds,
\* and then the setter's fields all take the call's arguments.
C10_ConfigOnlyOnSuccess ==
    /\ \A c \in Calls :
          c.postCfg = IF c.ret = 0 THEN CfgWithArgs(c) ELSE c.preCfg
    /\ \A i \in DOMAIN last.calls :
          last.calls[i].preCfg =
            IF i = 1 THEN last.preCfg ELSE last.calls[i - 1].postCfg
    /\ ~Idle =>
          config = IF last.calls = <<>> THEN last.preCfg
                   ELSE last.calls[Len(last.calls)].postCfg

C10_Witness ==
    \E c \in Calls, d \in Calls :
        /\ c.fn = "set_beta" /\ c.rdErr = 0 /\ c.ret # 0
        /\ CfgWithArgs(c) # c.preCfg
        /\ d.fn = "set_freq_out" /\ d.rdErr = 0 /\ d.ret # 0
        /\ CfgWithArgs(d) # d.preCfg


\* C11: in every set_time call the first operation is the update that sets
\* WRTC (bit 6 of INT); the 7-byte block is written only after it succeeded;
\* when it fails no time register changes and its error is returned; and no
\* later operation of the call touches INT, so the bit is never cleared.
C11_EnableBeforeBlock ==
    [][ last'.op = "set_time" =>
          LET ops == last'.ops
          IN  /\ Len(ops) \in {1, 2}
              /\ ops[1].op = "update_bits"
              /\ ops[1].reg = ISL_REG_CSR_INT
              /\ ops[1].val = ISL_BIT_CSR_INT_WRTC
              /\ \A i \in DOMAIN ops :
                    ops[i].op = "bulk_write" => (i = 2 /\ ops[1].err = 0)
              /\ \A i \in DOMAIN ops : i > 1 => ops[i].reg # ISL_REG_CSR_INT
              /\ ops[1].err # 0 =>
                    /\ Len(ops) = 1
                    /\ last'.ret = ops[1].err
                    /\ regmap' = regmap
              /\ ops[1].err = 0 =>
                    /\ Len(ops) = 2
                    /\ ops[2].op = "bulk_write"
                    /\ ops[2].reg = ISL_REG_RTC_SC
                    /\ last'.ret = ops[2].err
                    /\ HasBit(regmap'[ISL_REG_CSR_INT], ISL_BIT_CSR_INT_WRTC)
                    /\ \A r \in RegAddrs \ (TimeRegs \cup {ISL_REG_CSR_INT}) :
                          regmap'[r] = regmap[r]
                    /\ ops[2].err # 0 =>
                          \A r \in TimeRegs : regmap'[r] = regmap[r]
      ]_vars

C11_Witness ==
    /\ last.op = "set_time"
    /\ Len(last.ops) = 1
    /\ last.ret = -5
    /\ last.tm = MaxTime
    /\ ~HasBit(regmap[ISL_REG_CSR_INT], ISL_BIT_CSR_INT_WRTC)


\* C12: in every state after bind, on a channel that never fails, the stored
\* tse, btse and btsr equal bits 7, 6 and 5 of BETA, whatever BETA held at
\* bind and whatever the startup configuration.
C12_ConfigMirrorsBeta ==
    (dev.life = "bound" /\ HasBetaFlags(variant) /\ env.chanErrs = {})
    => /\ config.tse = HasBit(regmap[ISL_REG_CSR_BETA], ISL_BIT_CSR_BETA_TSE)
       /\ config.btse = HasBit(regmap[ISL_REG_CSR_BETA], ISL_BIT_CSR_BETA_BTSE)
       /\ config.btsr = HasBit(regmap[ISL_REG_CSR_BETA], ISL_BIT_CSR_BETA_BTSR)

FlagStoreOps == {"tse_store", "btse_store", "btsr_store"}

StoreOps == FlagStoreOps \cup {"bat_freq_out_store", "freq_out_store"}

\* the BETA bits of the flags an attribute does not write
SiblingBits(op) ==
    {ISL_BIT_CSR_BETA_TSE, ISL_BIT_CSR_BETA_BTSE, ISL_BIT_CSR_BETA_BTSR}
    \ { CASE op = "tse_store" -> ISL_BIT_CSR_BETA_TSE
          [] op = "btse_store" -> ISL_BIT_CSR_BETA_BTSE
          [] OTHER -> ISL_BIT_CSR_BETA_BTSR }

\* C13: after a successful write of one compensation flag through its
\* attribute, the two other compensation bits of BETA are what the register
\* held immediately before the write.
C13_SiblingBitsKept ==
    (last.op \in FlagStoreOps /\ HasBetaFlags(variant)
        /\ last.calls # <<>> /\ last.calls[1].ret = 0)
    => \A b \in SiblingBits(last.op) :
          HasBit(last.calls[1].postReg, b) = HasBit(last.calls[1].preReg, b)

\* C14: when the setter called by an attribute write fails, the attribute
\* write returns the setter's error, in every variant and for every
\* writable attribute.
C14_SetterErrorReturned ==
    (last.op \in StoreOps /\ last.calls # <<>> /\ last.calls[1].ret # 0)
    => last.ret = last.calls[1].ret

\* text that encodes the attribute's field: a boolean for the flags, a
\* decimal number within the mode range for frequency_output
ValidText(op, buf) ==
    IF op = "freq_out_store"
    THEN kstrtou8(buf).err = 0 /\ kstrtou8(buf).val <= FREQ_OUT_MODE_MAX
    ELSE kstrtobool(buf).err = 0

\* C15: an attribute write whose text does not encode the field is rejected
\* with an error before any setter is called: no register operation, stored
\* configuration unchanged, in every variant.
C15_InvalidTextRejected ==
    (last.op \in StoreOps /\ ~ValidText(last.op, last.buf))
    => /\ last.ret < 0
       /\ last.calls = <<>>
       /\ last.ops = <<>>
       /\ config = last.preCfg


\* a setter called by probe for the startup configuration has failed
StartupFailed == last.op = "probe" /\ \E c \in Calls : c.ret # 0

BetaFns == {"set_beta", "tse"}

\* the setter calls probe makes for the properties present
StartupCalls(v) ==
    IF v = "tse" THEN (IF props.tse THEN 1 ELSE 0)
    ELSE (IF props.tse THEN 1 ELSE 0) + (IF props.btse THEN 1 ELSE 0)
         + (IF props.btsr THEN 1 ELSE 0) + 1

\* C18 as stated: a failed startup setter does not abort the bind, which
\* goes on to register the RTC device, and the stored fields of the failed
\* setter keep their defaults: compensation flags all false, mode 0,
\* battery flag false.
C18_DefaultsAfterStartupFailure ==
    StartupFailed
    => /\ last.fw[Len(last.fw)] = "devm_rtc_register_device"
       /\ (\E c \in Calls : c.fn \in BetaFns /\ c.ret # 0)
          => (~config.tse /\ ~config.btse /\ ~config.btsr)
       /\ (\E c \in Calls : c.fn = "set_freq_out" /\ c.ret # 0)
          => (config.freq_out_mode = 0 /\ ~config.freq_out_bat)

\* C18 amended: a failed startup setter does not abort the bind: every
\* startup call is still made, the RTC device registration is the last step
\* and alone decides the result; the failed call leaves the stored fields as
\* they were before it, so the frequency-output fields keep mode 0 and
\* battery false, and the compensation flags are all false when every
\* compensation call failed, while a flag set by another, successful
\* compensation call of the same bind stays set.
C18_StartupFailureNotFatal ==
    StartupFailed
    => /\ last.fw[Len(last.fw)] = "devm_rtc_register_device"
       /\ last.ret \in FwAnswers
       /\ dev.rtc = (last.ret = 0)
       /\ dev.life = (IF last.ret = 0 THEN "bound" ELSE "failed")
       /\ Len(last.calls) = StartupCalls(variant)
       /\ \A c \in Calls : c.ret # 0 => c.postCfg = c.preCfg
       /\ (\E c \in Calls : c.fn = "set_freq_out" /\ c.ret # 0)
          => (config.freq_out_mode = 0 /\ ~config.freq_out_bat)
       /\ (\A c \in Calls : c.fn \in BetaFns => c.ret # 0)
          => (~config.tse /\ ~config.btse /\ ~config.btsr)
       /\ \A c \in Calls :
             (c.fn \in BetaFns /\ c.ret = 0)
             => \/ c.args.tse /\ ~c.preCfg.tse /\ config.tse
                \/ c.args.btse /\ ~c.preCfg.btse /\ config.btse
                \/ c.args.btsr /\ ~c.preCfg.btsr /\ config.btsr

C18_Witness ==
    /\ StartupFailed
    /\ dev.life = "bound"
    /\ config.tse /\ ~config.btse /\ config.btsr
    /\ \E c \in Calls : c.fn = "set_freq_out" /\ c.ret = -5


\* the registers a logged channel operation covers: the bulk write of
\* set_time, the bulk read of read_time, the two temperature registers
OpRegs(o) ==
    CASE o.op = "bulk_write" -> TimeRegs
      [] o.op = "bulk_read" /\ o.reg = ISL_REG_RTC_SC -> ReadTimeRegs
      [] o.op = "bulk_read" -> {ISL_REG_TEMP_TKOL, ISL_REG_TEMP_TKOL + 1}
      [] OTHER -> {o.reg}

\* C16: the status register is read exactly once, by bind, as its first
\* channel operation and so before any setter runs; no later call (time
\* read or set, temperature read, attribute read or write, unbind) covers
\* the status register or changes the stored status flags.
C16_StatusSnapshot ==
    [][ last'.op # "none" =>
          LET ops == last'.ops
              srReads == {i \in DOMAIN ops : ISL_REG_CSR_SR \in OpRegs(ops[i])}
          IN  IF last'.op = "probe"
              THEN /\ srReads \subseteq {1}
                   /\ (HasStatusRead(variant) /\ env.fwErrs = {})
                      => (srReads = {1} /\ ops[1].op = "read")
                   /\ last'.calls # <<>> => \A c \in Range(last'.calls) :
                         \A j \in DOMAIN c.ops : c.ops[j].reg # ISL_REG_CSR_SR
              ELSE /\ srReads = {}
                   /\ status' = status
      ]_vars

\* the variants that keep the status flags in their private data
HasStatusFlags(v) == v \in {"m", "isl12020"}

StatusByteRead ==
    /\ last.op = "probe"
    /\ last.ops # <<>>
    /\ last.ops[1].reg = ISL_REG_CSR_SR
    /\ last.ops[1].err = 0

\* C17 as stated: for every status byte read at bind the stored
\* oscillator_failed is bit 7 and, where the variant has it, rtc_failed is
\* bit 0; and every variant that reads the status has an oscillator_failed
\* attribute reporting the stored flag.
C17_StatusFlagsEveryVariant ==
    /\ StatusByteRead
       => /\ status.oscf = (last.ops[1].val >= 128)
          /\ HasStatusFlags(variant) => status.rtcf = (last.ops[1].val % 2 = 1)
          /\ "oscf" \in ShowAttrs(variant)
    /\ last.op = "oscf_show" => last.buf = BoolText(status.oscf)

\* C17 amended: in the variants that store status flags ("m" and isl12020)
\* oscillator_failed is bit 7 and rtc_failed bit 0 of the byte read at bind,
\* no other bit matters, and the oscillator_failed and rtc_failed attributes
\* report the stored flags; the one-flag variant reads the byte but stores
\* no flag and has no such attribute.
C17_StatusFlagsFromByte ==
    /\ (StatusByteRead /\ HasStatusFlags(variant))
       => /\ status.oscf = (last.ops[1].val >= 128)
          /\ status.rtcf = (last.ops[1].val % 2 = 1)
          /\ {"oscf", "rtcf"} \subseteq ShowAttrs(variant)
    /\ (StatusByteRead /\ ~HasStatusFlags(variant))
       => (status = NoStatus /\ ShowAttrs(variant) \cap {"oscf", "rtcf"} = {})
    /\ last.op = "oscf_show"
       => /\ HasStatusFlags(variant)
          /\ last.buf = <<IF regmap[ISL_REG_CSR_SR] >= 128 THEN "1" ELSE "0",
                          "\n">>
          /\ last.ret = 2
    /\ last.op = "rtcf_show"
       => /\ HasStatusFlags(variant)
          /\ last.buf = <<IF regmap[ISL_REG_CSR_SR] % 2 = 1 THEN "1" ELSE "0",
                          "\n">>
          /\ last.ret = 2

C17_Witness ==
    /\ last.op = "oscf_show"
    /\ regmap[ISL_REG_CSR_SR] = 130
    /\ last.buf = <<"1", "\n">>
    /\ ~status.rtcf


\* C20: a set_freq_out call with mode in 0-15 whose read and write both
\* succeed leaves bits 0-3 of INT equal to mode and bits 5, 6 and 7 as they
\* were before the call, for every content of the register: only bits 0-4
\* can change.
C20_IntFrame ==
    \A i \in DOMAIN last.calls :
        LET c == last.calls[i]
        IN  (c.fn = "set_freq_out" /\ c.ret = 0 /\ c.args.mode \in 0 .. 15)
            => /\ c.postReg % 16 = c.args.mode
               /\ c.postReg \div 32 = c.preReg \div 32
               /\ i = Len(last.calls) => regmap[ISL_REG_CSR_INT] = c.postReg

C20_Witness ==
    \E c \in Calls :
        /\ c.fn = "set_freq_out"
        /\ c.ret = 0
        /\ c.preReg = 239
        /\ c.args.mode = 5
        /\ c.args.bat
        /\ last.op = "freq_out_store"
        /\ regmap[ISL_REG_CSR_INT] = 229


\* C19: when every call runs alone from entry to return, as under one
\* per-device lock, every call that reported success is reflected in the
\* final register value and in the stored configuration; when nothing
\* serialises them, two read-modify-write sequences on the same register can
\* interleave so that both report success and one of them is not reflected
\* (the state C19_Witness describes).
C19_NoLostUpdateWhenSerial ==
    (\A t \in Threads : threads[t].pc = "done" /\ threads[t].alone)
        => \A t \in Threads : threads[t].ret = 0 => Reflected(t)

C19_Witness ==
    /\ \A t \in Threads : threads[t].pc = "done" /\ threads[t].ret = 0
    /\ \E t, u \in Threads :
         /\ threads[t].op = "freq_out_store"
         /\ threads[u].op = "set_time"
         /\ ~threads[u].alone
         /\ ~Reflected(u)
         /\ Reflected(t)


\* C21 as stated: each byte of the block set_time wrote for a calendar time
\* inside the domain fits the mask read_time applies to it (7, 7, 6, 6, 5,
\* 8, 3 bits), the hour byte, which carries the 24-hour bit 7, included.
C21_EveryByteFitsMask ==
    LET fits(b, bits) == b < 2 ^ bits
    IN  (last.op = "set_time" /\ last.ret = 0 /\ InTimeDomain(last.tm))
        => /\ fits(regmap[ISL_REG_RTC_SC], 7)
           /\ fits(regmap[ISL_REG_RTC_MN], 7)
           /\ fits(regmap[ISL_REG_RTC_HR], 6)
           /\ fits(regmap[ISL_REG_RTC_DT], 6)
           /\ fits(regmap[ISL_REG_RTC_MO], 5)
           /\ fits(regmap[ISL_REG_RTC_YR], 8)
           /\ fits(regmap[ISL_REG_RTC_DW], 3)

\* C21 amended: for every calendar time inside the domain, the block set_time
\* wrote without a channel failure holds, in every variant: the hour byte
\* BCD(hours) with bit 7 (24-hour mode) set, the month byte BCD(month + 1),
\* the year byte BCD(year mod 100), the weekday byte the weekday masked to
\* its low 3 bits, the seconds, minutes and day bytes the BCD of the field;
\* and the mask read_time applies to each byte (7, 7, 6, 6, 5, 8, 3 bits)
\* keeps the whole value of the field: it removes nothing but the 24-hour
\* bit of the hour byte.
C21_BlockWritten ==
    LET bcd(n) == (n \div 10) * 16 + (n % 10)
        low(b, bits) == b % (2 ^ bits)
        tm == last.tm
    IN  (last.op = "set_time" /\ last.ret = 0 /\ InTimeDomain(tm))
        => /\ regmap[ISL_REG_RTC_SC] = bcd(tm.tm_sec)
           /\ regmap[ISL_REG_RTC_MN] = bcd(tm.tm_min)
           /\ regmap[ISL_REG_RTC_HR] = bcd(tm.tm_hour) + 128
           /\ regmap[ISL_REG_RTC_DT] = bcd(tm.tm_mday)
           /\ regmap[ISL_REG_RTC_MO] = bcd(tm.tm_mon + 1)
           /\ regmap[ISL_REG_RTC_YR] = bcd(tm.tm_year % 100)
           /\ regmap[ISL_REG_RTC_DW] = tm.tm_wday % 8
           /\ low(regmap[ISL_REG_RTC_SC], 7) = regmap[ISL_REG_RTC_SC]
           /\ low(regmap[ISL_REG_RTC_MN], 7) = regmap[ISL_REG_RTC_MN]
           /\ low(regmap[ISL_REG_RTC_HR], 6) = bcd(tm.tm_hour)
           /\ low(regmap[ISL_REG_RTC_DT], 6) = regmap[ISL_REG_RTC_DT]
           /\ low(regmap[ISL_REG_RTC_MO], 5) = regmap[ISL_REG_RTC_MO]
           /\ low(regmap[ISL_REG_RTC_YR], 8) = regmap[ISL_REG_RTC_YR]
           /\ low(regmap[ISL_REG_RTC_DW], 3) = regmap[ISL_REG_RTC_DW]

C21_Witness ==
    /\ last.op = "set_time"
    /\ last.ret = 0
    /\ last.tm = MaxTime
    /\ variant = "basic"
    /\ regmap[ISL_REG_RTC_HR] = 163
    /\ regmap[ISL_REG_RTC_MO] = 18
    /\ regmap[ISL_REG_RTC_YR] = 153


\* C22: read_temp interprets the two bytes read as a 10-bit code: the value
\* returned for a raw 16-bit value is the one returned for its low 10 bits
\* alone, so two raw values that agree in bits 0-9 give the same result.
C22_TenBitCode ==
    (last.op = "read_temp" /\ last.ret = 0)
    => last.val = TempValue(variant, last.ops[1].val % (2 ^ 10))


\* C23: in the variants with three compensation flags, bind without a
\* channel failure applies the startup configuration flag by flag in the
\* order tse, btse, btsr: one set_beta call for each property present, its
\* own flag true and the other two arguments the values stored at that
\* moment.  With all three present the three stored flags end true and bits
\* 7, 6 and 5 of BETA set; with a subset present exactly its flags are true
\* in memory and the bits of the absent flags are written as 0.
C23_StartupOrder ==
    LET IsBeta(c) == c.fn = "set_beta"
        IsPresent(f) == \/ f = "tse" /\ props.tse
                        \/ f = "btse" /\ props.btse
                        \/ f = "btsr" /\ props.btsr
        calls == SelectSeq(last.calls, IsBeta)
        flags == SelectSeq(<<"tse", "btse", "btsr">>, IsPresent)
        beta == regmap[ISL_REG_CSR_BETA]
    IN  (last.op = "probe" /\ last.ret = 0 /\ HasBetaFlags(variant) /\ AllOpsOk)
        => /\ Len(calls) = Len(flags)
           /\ \A i \in DOMAIN calls :
                /\ calls[i].ret = 0
                /\ calls[i].args.tse =
                     (IF flags[i] = "tse" THEN TRUE ELSE calls[i].preCfg.tse)
                /\ calls[i].args.btse =
                     (IF flags[i] = "btse" THEN TRUE ELSE calls[i].preCfg.btse)
                /\ calls[i].args.btsr =
                     (IF flags[i] = "btsr" THEN TRUE ELSE calls[i].preCfg.btsr)
           /\ config.tse = props.tse
           /\ config.btse = props.btse
           /\ config.btsr = props.btsr
           /\ flags # <<>>
              => /\ HasBit(beta, BIT(7)) = props.tse
                 /\ HasBit(beta, BIT(6)) = props.btse
                 /\ HasBit(beta, BIT(5)) = props.btsr

C23_Witness ==
    /\ last.op = "probe"
    /\ last.ret = 0
    /\ variant = "isl12020"
    /\ props.tse /\ ~props.btse /\ props.btsr
    /\ Len(last.calls) = 3
    /\ last.calls[1].preReg = 95
    /\ last.calls[2].args = [NoArgs EXCEPT !.tse = TRUE, !.btsr = TRUE]
    /\ regmap[ISL_REG_CSR_BETA] = 191
    /\ config.tse /\ ~config.btse /\ config.btsr


\* C24: in every reachable state, a bind with any frequency-output-mode
\* startup value included, the stored frequency-output mode is in 0-15, a
\* valid index into the 16-entry freq_out_modes table read by
\* frequency_output, and after a successful set_freq_out it equals bits 0-3
\* of INT.
C24_StoredModeInTable ==
    /\ config.freq_out_mode \in 0 .. 15
    /\ \A c \in Calls :
          (c.fn = "set_freq_out" /\ c.ret = 0)
          => c.postCfg.freq_out_mode = c.postReg % 16


\* C25: with the handlers serialized and writes that succeed or leave the
\* register alone, in the drivers with three compensation flags: a state
\* reached by a handler in which a set_beta call succeeded has the stored
\* tse, btse and btsr equal to bits 7, 6 and 5 of BETA, and no later step of
\* the bound driver (setter call, attribute write, failed read or write,
\* set_time, unbind) breaks that equality.  The same for the stored battery
\* flag and mode of rtc-isl12020.c against bit 4 (inverted) and bits 0-3 of
\* INT, from a successful set_freq_out with mode in 0-15 on.
C25_MirrorKept ==
    [][LET BetaOk(r, c) == /\ HasBit(r[ISL_REG_CSR_BETA], BIT(7)) = c.tse
                           /\ HasBit(r[ISL_REG_CSR_BETA], BIT(6)) = c.btse
                           /\ HasBit(r[ISL_REG_CSR_BETA], BIT(5)) = c.btsr
           IntOk(r, c) == /\ HasBit(r[ISL_REG_CSR_INT], BIT(4)) = ~c.freq_out_bat
                          /\ r[ISL_REG_CSR_INT] % 16 = c.freq_out_mode
           done == Range(last'.calls)
       IN  /\ (HasBetaFlags(variant)
                 /\ \E c \in done : c.fn = "set_beta" /\ c.ret = 0)
              => BetaOk(regmap', config')
           /\ (variant = "isl12020"
                 /\ \E c \in done : /\ c.fn = "set_freq_out"
                                    /\ c.ret = 0
                                    /\ c.args.mode \in 0 .. 15)
              => IntOk(regmap', config')
           /\ (HasBetaFlags(variant) /\ dev.life = "bound"
                 /\ BetaOk(regmap, config))
              => BetaOk(regmap', config')
           /\ (variant = "isl12020" /\ dev.life = "bound"
                 /\ IntOk(regmap, config))
              => IntOk(regmap', config')
      ]_vars

C25_Witness ==
    /\ variant = "isl12020"
    /\ last.op = "set_time"
    /\ last.ret = -5
    /\ regmap[ISL_REG_CSR_BETA] = 170
    /\ config.tse /\ ~config.btse /\ config.btsr
    /\ regmap[ISL_REG_CSR_INT] = 229
    /\ config.freq_out_mode = 5 /\ config.freq_out_bat


\* C26: a failed registration of the hwmon device during bind is not fatal:
\* bind goes on to the RTC registration without it; and a later unbind calls
\* hwmon_device_unregister only when the registration had succeeded, never
\* with the error pointer of a failed one.
C26_UnregisterOnlyRegistered ==
    /\ (last.op = "probe" /\ dev.hwmon = "error")
       => /\ last.fw[Len(last.fw)] = "devm_rtc_register_device"
          /\ dev.life = (IF last.ret = 0 THEN "bound" ELSE "failed")
    /\ (last.op = "remove" /\ "hwmon_device_unregister" \in Range(last.fw))
       => dev.hwmon = "unregistered"


\* C27: each of the five writable attributes of rtc-isl12020.c returns the
\* full length of the text written (count) when the write succeeded and a
\* negative error code otherwise; battery_frequency_output_enabled returns
\* count for a written true and for a written false alike.
C27_StoreReturnsCount ==
    (variant = "isl12020" /\ last.op \in StoreOps)
    => IF last.calls # <<>> /\ \A c \in Calls : c.ret = 0
       THEN last.ret = Len(last.buf)
       ELSE last.ret < 0

====
